---- MODULE Spec2Model ----
(***************************************************************************)
(* A model of grit (todd-bush/grit): the commit-range resolver             *)
(* (utils.rs, git_utils.rs), the per-file blame aggregation (fame.rs,      *)
(* fame_two.rs), the task fan-out / join of the fame and effort analyses   *)
(* (fame.rs, effort.rs) and the per-author statistics reduction (fame.rs). *)
(*                                                                         *)
(* Each analysis is a batch pipeline; a specification per pipeline draws   *)
(* the repository contents and the command-line arguments in its initial   *)
(* state and then runs the pipeline's steps.                               *)
(***************************************************************************)
EXTENDS Integers, Sequences, FiniteSets, TLC

(***************************************************************************)
(* Bounds of the model.                                                    *)
(***************************************************************************)
\* longest commit history (number of commits reachable from HEAD)
MaxCommits == 3
\* commit timestamps are drawn from 1..MaxTime, date bounds from 0..MaxTime+1
MaxTime == 3
\* most blame hunks of a repository's files (of one file in SpecBlame)
MaxHunks == 3
\* most lines in one blame hunk
MaxLines == 2
\* longest list of blame entries handed to calculate_stats on its own
MaxEntries == 2
\* by-date: commit timestamps are drawn from 0..MaxStamp (in ticks)
MaxStamp == 8
\* by-date: longest commit history
MaxDateCommits == 2

VARIABLES
    \* ---- commit-range resolver --------------------------------------
    history,        \* commit times of the linear history, root first; the
                    \* commit id of history[i] is i
    start_date,     \* Option: <<>> is None, <<t>> is Some(t)
    end_date,
    range_pc,       \* "start" | "resolved"
    commit_range,   \* result of grit_utils::find_commit_range
    gu_pc,          \* "start" | "resolved"
    gu_range,       \* result of git_utils::find_commit_range
    \* ---- repository contents seen by blame ---------------------------
    file_names,     \* the file list, in the order generate_file_list returns it
    repo_blame,     \* file -> the hunks repo.blame_file yields for it
    \* ---- fan-out / join of Fame::process_files and Effort::process ----
    main_pc,        \* position of the analysis' main flow
    task_state,     \* file -> "unspawned" | "spawned" | "blamed" | "done"
    task_result,    \* file -> what the file's task returned
    progress,       \* the shared ProgressBar: [pos, len, finished]
    incs,           \* file -> number of progress.inc(1) calls of its task
    error_log,      \* files an error!(..) line was logged for
    blame_entries,  \* the flattened Vec<BlameEntry> of process_files
    \* ---- reduction ----------------------------------------------------
    restrict_authors, \* Option<Vec<String>>
    sort,           \* Option<String>: the --sort key
    stats,          \* what calculate_stats / the effort sort returned
    \* ---- fame_two.rs -------------------------------------------------
    two_pc,         \* "idle" | "running" | "failed" | "done"
    two_idx,        \* index in file_names of the next file to blame
    per_file,       \* fame_two's per_file map: file -> Vec<BlameOutput>
    \* ---- by_date.rs --------------------------------------------------
    commit_authors, \* author name of each commit of history (same indices)
    ignore_weekends,
    ignore_gap_fill,
    bd_pc,          \* position of ByDate::process_date
    bd_output,      \* the Vec<ByDateOutput> of process_date
    total_count,    \* the 'Total' row display_text_output writes
    \* ---- start of Fame::process / Effort::process ---------------------
    include,        \* Option<String>: the --include globs, comma separated
    exclude,        \* Option<String>: the --exclude globs
    work_log,       \* the repository operations done so far, in order
    startup_pc,     \* position of generate_file_list
    \* ---- repository handles ------------------------------------------
    repo_handles,   \* who called Repository::open, one entry per handle
    task_handle     \* file -> the handle its task blames with (0: none yet)

rangeVars == <<history, start_date, end_date, range_pc, commit_range, gu_pc, gu_range>>
repoVars  == <<file_names, repo_blame>>
taskVars  == <<main_pc, task_state, task_result, progress, incs, error_log, blame_entries>>
statVars  == <<restrict_authors, sort, stats>>
twoVars   == <<two_pc, two_idx, per_file>>
dateVars  == <<commit_authors, ignore_weekends, ignore_gap_fill, bd_pc, bd_output, total_count>>
startVars == <<include, exclude, work_log, startup_pc>>
handleVars == <<repo_handles, task_handle>>

vars == <<rangeVars, repoVars, taskVars, statVars, twoVars, dateVars, startVars, handleVars>>

(***************************************************************************)
(* Option<T>                                                               *)
(***************************************************************************)
None == <<>>
Some(x) == <<x>>
IsSome(o) == o # <<>>
Unwrap(o) == o[1]

RECURSIVE ReverseSeq(_)
ReverseSeq(s) == IF s = <<>> THEN <<>> ELSE Append(ReverseSeq(Tail(s)), Head(s))

(***************************************************************************)
(* Revision walk.  repo.revwalk() + push_head() with Sort::TIME is         *)
(* libgit2's time-sorted walk: a commit is emitted only after the child it *)
(* is reached through, so on a linear history the walk runs from the tip   *)
(* to the root whatever the commit times are; Sort::REVERSE reverses the   *)
(* whole walk.  The walk is the sequence of commit ids.                    *)
(***************************************************************************)
Revwalk(h, reverse) ==
    LET rootFirst == [i \in 1..Len(h) |-> i]
    IN  IF reverse THEN rootFirst ELSE ReverseSeq(rootFirst)

(***************************************************************************)
(* grit_utils::find_commit_range (utils.rs)                                *)
(***************************************************************************)
\* for id in revwalk { if commit_time >= start_date_sec { earliest = Some(id) } else { break } }
RECURSIVE ScanEarliest(_, _, _, _)
ScanEarliest(walk, h, start_sec, acc) ==
    IF walk = <<>> THEN acc
    ELSE IF h[Head(walk)] >= start_sec
         THEN ScanEarliest(Tail(walk), h, start_sec, Some(Head(walk)))
         ELSE acc

\* for id in revwalk { if commit_time <= end_date_sec { latest = Some(id) } else { break } }
RECURSIVE ScanLatest(_, _, _, _)
ScanLatest(walk, h, end_sec, acc) ==
    IF walk = <<>> THEN acc
    ELSE IF h[Head(walk)] <= end_sec
         THEN ScanLatest(Tail(walk), h, end_sec, Some(Head(walk)))
         ELSE acc

\* a resolver that binds an absent bound to the root / tip commit
find_commit_range_binding(h, start, end) ==
    [ok |-> TRUE,
     earliest |-> IF IsSome(start)
                  THEN ScanEarliest(Revwalk(h, FALSE), h, Unwrap(start), None)
                  ELSE IF h = <<>> THEN None ELSE Some(1),
     latest   |-> IF IsSome(end)
                  THEN ScanLatest(Revwalk(h, TRUE), h, Unwrap(end), None)
                  ELSE IF h = <<>> THEN None ELSE Some(Len(h))]

\* revwalk.push_head()? fails on a repository without commits, but only a
\* present bound builds a revwalk.
find_commit_range(h, start, end) ==
    IF h = <<>> /\ (IsSome(start) \/ IsSome(end))
    THEN [ok |-> FALSE, earliest |-> None, latest |-> None]
    ELSE [ok |-> TRUE,
          earliest |-> IF IsSome(start)
                       THEN ScanEarliest(Revwalk(h, FALSE), h, Unwrap(start), None)
                       ELSE None,
          latest   |-> IF IsSome(end)
                       THEN ScanLatest(Revwalk(h, TRUE), h, Unwrap(end), None)
                       ELSE None]

(***************************************************************************)
(* git_utils::find_commit_range (git_utils.rs), the resolver that takes an *)
(* open repository; no analysis under src/ calls it.                       *)
(***************************************************************************)
\* the single newest-first walk of lines 125-148: each bound is set at most
\* once, by the first commit of the walk that passes its test
RECURSIVE GuScan(_, _, _, _, _)
GuScan(walk, h, start, end, acc) ==
    IF walk = <<>> THEN acc
    ELSE LET id == Head(walk)
             e  == IF IsSome(start) /\ h[id] >= Unwrap(start) /\ ~IsSome(acc.earliest)
                   THEN Some(id) ELSE acc.earliest
             l  == IF IsSome(end) /\ h[id] <= Unwrap(end) /\ ~IsSome(acc.latest)
                   THEN Some(id) ELSE acc.latest
         IN  GuScan(Tail(walk), h, start, end, [acc EXCEPT !.earliest = e, !.latest = l])

git_utils_find_commit_range(h, start, end) ==
    IF h = <<>>
    THEN [ok |-> FALSE, earliest |-> None, latest |-> None]
    ELSE LET first == [ok |-> TRUE,
                       earliest |-> IF ~IsSome(start)
                                    THEN Some(Head(Revwalk(h, TRUE))) ELSE None,
                       latest   |-> IF ~IsSome(end)
                                    THEN Some(Head(Revwalk(h, FALSE))) ELSE None]
         IN  IF IsSome(start) \/ IsSome(end)
             THEN GuScan(Revwalk(h, FALSE), h, start, end, first)
             ELSE first

(***************************************************************************)
(* The resolver's inputs and steps                                         *)
(***************************************************************************)
RECURSIVE SeqsUpTo(_, _)
SeqsUpTo(S, n) ==
    IF n = 0 THEN {<<>>}
    ELSE LET shorter == SeqsUpTo(S, n - 1)
         IN  shorter \cup {Append(s, x) : s \in {t \in shorter : Len(t) = n - 1}, x \in S}

Times == 1..MaxTime
DateBounds == {None} \cup {Some(t) : t \in 0..(MaxTime + 1)}
NoRange == [ok |-> TRUE, earliest |-> None, latest |-> None]

RangeIdle ==
    /\ history = <<>>
    /\ start_date = None
    /\ end_date = None
    /\ range_pc = "idle"
    /\ commit_range = NoRange
    /\ gu_pc = "idle"
    /\ gu_range = NoRange

RangeInit ==
    /\ history \in SeqsUpTo(Times, MaxCommits)
    /\ start_date \in DateBounds
    /\ end_date \in DateBounds
    /\ range_pc = "start"
    /\ commit_range = NoRange
    /\ gu_pc = "start"
    /\ gu_range = NoRange

\* utils.rs:151-187: the repository is opened, then one revwalk is made for
\* each bound that is present (the second only if the first did not fail)
find_commit_range_work(h, start, end) ==
    <<"Repository::open">>
       \o (IF IsSome(start) THEN <<"repo.revwalk">> ELSE <<>>)
       \o (IF IsSome(end) /\ ~(h = <<>> /\ IsSome(start)) THEN <<"repo.revwalk">> ELSE <<>>)

\* Fame::process / Effort::process call grit_utils::find_commit_range
ResolveRange ==
    /\ range_pc = "start"
    /\ commit_range' = find_commit_range(history, start_date, end_date)
    /\ range_pc' = "resolved"
    /\ work_log' = work_log \o find_commit_range_work(history, start_date, end_date)
    /\ UNCHANGED <<history, start_date, end_date, gu_pc, gu_range>>
    /\ UNCHANGED <<include, exclude, startup_pc>>
    /\ UNCHANGED <<repoVars, taskVars, statVars, twoVars, dateVars, handleVars>>

GitUtilsResolveRange ==
    /\ gu_pc = "start"
    /\ gu_range' = git_utils_find_commit_range(history, start_date, end_date)
    /\ gu_pc' = "resolved"
    /\ UNCHANGED <<history, start_date, end_date, range_pc, commit_range>>
    /\ UNCHANGED <<repoVars, taskVars, statVars, twoVars, dateVars, startVars, handleVars>>

RangeNext == ResolveRange \/ GitUtilsResolveRange

(***************************************************************************)
(* utils.rs: generate_file_list.  A glob argument is kept as the list of   *)
(* patterns its split(',') yields.                                         *)
(***************************************************************************)
\* glob::Pattern::new: "[" opens a character class that is never closed
Pattern_new(p) == IF p = "[" THEN [ok |-> FALSE, pattern |-> ""] ELSE [ok |-> TRUE, pattern |-> p]

\* Pattern::matches: "*" matches every path, a plain name matches itself
matches(pattern, path) == pattern = "*" \/ pattern = path

\* lines 47-57 (and 59-69): Some(patterns) if every pattern compiles
compile_patterns(arg) ==
    IF ~IsSome(arg) THEN [ok |-> TRUE, patterns |-> None]
    ELSE LET globs == Unwrap(arg)
         IN  IF \E i \in 1..Len(globs) : ~Pattern_new(globs[i]).ok
             THEN [ok |-> FALSE, patterns |-> None]
             ELSE [ok |-> TRUE,
                   patterns |-> Some([i \in 1..Len(globs) |-> Pattern_new(globs[i]).pattern])]

\* lines 74-86: include_match && !exclude_match
keep_file(path, includes, excludes) ==
    LET include_match == IF IsSome(includes)
                         THEN \E i \in 1..Len(Unwrap(includes)) : matches(Unwrap(includes)[i], path)
                         ELSE TRUE
        exclude_match == IF IsSome(excludes)
                         THEN \E i \in 1..Len(Unwrap(excludes)) : matches(Unwrap(excludes)[i], path)
                         ELSE FALSE
    IN  include_match /\ ~exclude_match

\* the paths repo.statuses(..) lists
TrackedFiles == <<"f1", "f2">>

\* lines 31-90, called by Fame::process / Effort::process once
\* find_commit_range has returned Ok: open the repository, list the statuses,
\* compile the include and the exclude patterns (`?` returns the first
\* error), filter the paths
GenerateFileList ==
    /\ startup_pc = "start"
    /\ range_pc = "resolved"
    /\ commit_range.ok
    /\ LET includes == compile_patterns(include)
           excludes == compile_patterns(exclude)
       IN  /\ work_log' = work_log \o <<"Repository::open", "repo.statuses">>
           /\ IF includes.ok /\ excludes.ok
              THEN /\ file_names' = SelectSeq(TrackedFiles,
                                       LAMBDA path : keep_file(path, includes.patterns,
                                                               excludes.patterns))
                   /\ startup_pc' = "listed"
              ELSE /\ startup_pc' = "pattern_error"
                   /\ UNCHANGED file_names
    /\ UNCHANGED <<include, exclude, repo_blame>>
    /\ UNCHANGED <<rangeVars, taskVars, statVars, twoVars, dateVars, handleVars>>

(***************************************************************************)
(* Repository contents seen by blame.  A hunk carries its final commit and *)
(* its line count; hunk.final_signature() is the author of that commit.    *)
(* Commit ids are fixed-width and never contain "-".                       *)
(***************************************************************************)
Commits == {"c1", "c2", "c3"}
Authors == {"al", "bo"}
CommitAuthor == [c \in Commits |-> IF c = "c2" THEN "bo" ELSE "al"]
Hunks(maxLines) == [commit : Commits, lines : 1..maxLines]

RECURSIVE SumLines(_)
SumLines(s) == IF s = <<>> THEN 0 ELSE Head(s).lines + SumLines(Tail(s))

\* every order a Vec collected from a HashMap's values can have
RECURSIVE Orderings(_)
Orderings(S) ==
    IF S = {} THEN {<<>>}
    ELSE UNION {{<<x>> \o t : t \in Orderings(S \ {x})} : x \in S}

Range(s) == {s[i] : i \in 1..Len(s)}

(***************************************************************************)
(* fame.rs: BlameProcessor::process                                        *)
(***************************************************************************)
\* a key that forgets the commit
blame_key_author_only(author, commit_id) == author

\* let blame_key = format!("{}-{}", author, commit_id);
blame_key(author, commit_id) == author \o "-" \o commit_id

BlameEntry_new(author, commit_id, file_name) ==
    [author |-> author, commit_id |-> commit_id, lines |-> 0, file_name |-> file_name]

\* the loop over blame.iter(): look the key up, insert a fresh entry if it is
\* vacant, add the hunk's lines
RECURSIVE BlameMap(_, _, _)
BlameMap(hunks, file_name, blame_map) ==
    IF hunks = <<>> THEN blame_map
    ELSE LET hunk      == Head(hunks)
             author    == CommitAuthor[hunk.commit]
             commit_id == hunk.commit
             key       == blame_key(author, commit_id)
             entry     == IF key \in DOMAIN blame_map
                          THEN blame_map[key]
                          ELSE BlameEntry_new(author, commit_id, file_name)
             updated   == [entry EXCEPT !.lines = @ + hunk.lines]
         IN  BlameMap(Tail(hunks), file_name,
                      [k \in DOMAIN blame_map \cup {key} |->
                          IF k = key THEN updated ELSE blame_map[k]])

EmptyMap == [k \in {} |-> 0]

\* blame_map.into_values(): the entries, in no particular order
process_values(hunks, file_name) ==
    LET m == BlameMap(hunks, file_name, EmptyMap) IN {m[k] : k \in DOMAIN m}

Ok(v) == [ok |-> TRUE, value |-> v]
Err == [ok |-> FALSE, value |-> <<>>]
NotRun == [ok |-> FALSE, value |-> <<"pending">>]

(***************************************************************************)
(* fame_two.rs: BlameProcessor::process                                    *)
(***************************************************************************)
BlameOutput_new(author, commit_id) ==
    [author |-> author, commit_id |-> commit_id, lines |-> 0]

\* blame_map: HashMap<BlameOutput, i32>, keyed by the whole (zero-lines) struct
RECURSIVE TwoBlameMap(_, _)
TwoBlameMap(hunks, blame_map) ==
    IF hunks = <<>> THEN blame_map
    ELSE LET hunk       == Head(hunks)
             file_blame == BlameOutput_new(CommitAuthor[hunk.commit], hunk.commit)
             v          == IF file_blame \in DOMAIN blame_map THEN blame_map[file_blame] ELSE 0
         IN  TwoBlameMap(Tail(hunks),
                         [k \in DOMAIN blame_map \cup {file_blame} |->
                             IF k = file_blame THEN v + hunk.lines ELSE blame_map[k]])

\* .map(|(k, v)| { key.lines = *v; key })
two_process_values(hunks) ==
    LET m == TwoBlameMap(hunks, EmptyMap)
    IN  {[k EXCEPT !.lines = m[k]] : k \in DOMAIN m}

(***************************************************************************)
(* fame.rs: Fame::process_files on the runtime Fame::process builds        *)
(* (new_current_thread): the spawned tasks run one at a time, each to its  *)
(* end (BlameProcessor::process has no await inside), while the main flow  *)
(* is suspended in join_all.                                               *)
(***************************************************************************)
\* lines 270-291: create the progress bar, spawn one task per file
SpawnTasks ==
    /\ main_pc = "start"
    /\ progress' = [pos |-> 0, len |-> Len(file_names), finished |-> FALSE]
    /\ task_state' = [f \in Range(file_names) |-> "spawned"]
    /\ main_pc' = "joining"
    /\ UNCHANGED <<task_result, incs, error_log, blame_entries>>
    /\ UNCHANGED <<rangeVars, repoVars, statVars, twoVars, dateVars, startVars, handleVars>>

\* a repository that every caller finds already open and shares
open_repository_shared(handles, owner) ==
    IF DOMAIN handles # {}
    THEN [handle |-> CHOOSE h \in DOMAIN handles : TRUE, handles |-> handles]
    ELSE [handle |-> 1, handles |-> [h \in {1} |-> owner]]

\* Repository::open(&self.path): a new Repository value, owned by the caller's
\* frame, at an address no live Repository has
open_repository(handles, owner) ==
    LET h == CHOOSE n \in 1..(Cardinality(DOMAIN handles) + 1) :
                  /\ n \notin DOMAIN handles
                  /\ \A m \in 1..(n - 1) : m \in DOMAIN handles
    IN  [handle |-> h,
         handles |-> [k \in DOMAIN handles \cup {h} |-> IF k = h THEN owner ELSE handles[k]]]

\* `repo` goes out of scope at the end of the function that opened it
drop_repository(handles, handle) ==
    [k \in DOMAIN handles \ Range(handle) |-> handles[k]]

\* lines 279-281 with 131-133: the runtime of Fame::process has one thread
\* (new_current_thread, line 377), which polls a spawned task only while no
\* other task is being polled; the task begins by opening the repository, and
\* its `?` ends the task with the error, which the closure of .map_err logs
PollTask(f) ==
    /\ main_pc = "joining"
    /\ task_state[f] = "spawned"
    /\ \A g \in Range(file_names) : task_state[g] # "running"
    /\ \E open_ok \in BOOLEAN :
          IF open_ok
          THEN LET opened == open_repository(repo_handles, f)
               IN  /\ repo_handles' = opened.handles
                   /\ task_handle' = [task_handle EXCEPT ![f] = Some(opened.handle)]
                   /\ task_state' = [task_state EXCEPT ![f] = "running"]
                   /\ UNCHANGED <<task_result, error_log>>
          ELSE /\ task_result' = [task_result EXCEPT ![f] = Err]
               /\ error_log' = error_log \cup {f}
               /\ task_state' = [task_state EXCEPT ![f] = "done"]
               /\ UNCHANGED handleVars
    /\ UNCHANGED <<main_pc, progress, incs, blame_entries>>
    /\ UNCHANGED <<rangeVars, repoVars, statVars, twoVars, dateVars, startVars>>

\* lines 279-290 with 135-171: the rest of the task, which has no suspension
\* point, to its end.  Ok: the closure of .map increments the bar; Err: the
\* closure of .map_err logs the error.  The repository is dropped.
RunTask(f) ==
    /\ main_pc = "joining"
    /\ task_state[f] = "running"
    /\ repo_handles' = drop_repository(repo_handles, task_handle[f])
    /\ task_handle' = [task_handle EXCEPT ![f] = None]
    /\ \E blame_ok \in BOOLEAN :
          IF blame_ok
          THEN /\ \E result \in Orderings(process_values(repo_blame[f], f)) :
                     task_result' = [task_result EXCEPT ![f] = Ok(result)]
               /\ progress' = [progress EXCEPT !.pos = @ + 1]
               /\ incs' = [incs EXCEPT ![f] = @ + 1]
               /\ UNCHANGED error_log
          ELSE /\ task_result' = [task_result EXCEPT ![f] = Err]
               /\ error_log' = error_log \cup {f}
               /\ UNCHANGED <<progress, incs>>
    /\ task_state' = [task_state EXCEPT ![f] = "done"]
    /\ UNCHANGED <<main_pc, blame_entries>>
    /\ UNCHANGED <<rangeVars, repoVars, statVars, twoVars, dateVars, startVars>>

\* a collection that gives up on the first failed file
collect_blame_entries_or_abort(results) ==
    IF \E i \in 1..Len(results) : ~results[i].ok
    THEN Err
    ELSE LET RECURSIVE Cat(_)
             Cat(rs) == IF rs = <<>> THEN <<>> ELSE Head(rs).value \o Cat(Tail(rs))
         IN  Ok(Cat(results))

\* lines 294-299: results.into_iter().filter_map(|r| r.ok()).filter_map(|r| r.ok())
\* .flatten().collect(), over the tasks' results in the order they were spawned
collect_blame_entries(results) ==
    LET RECURSIVE Cat(_)
        Cat(rs) == IF rs = <<>> THEN <<>>
                   ELSE IF Head(rs).ok THEN Head(rs).value \o Cat(Tail(rs))
                   ELSE Cat(Tail(rs))
    IN  Ok(Cat(results))

\* a join that returns without waiting for the tasks
JoinAll_no_barrier ==
    /\ main_pc = "joining"
    /\ LET results == [i \in 1..Len(file_names) |-> task_result[file_names[i]]]
           collected == collect_blame_entries(results)
       IN  IF collected.ok
           THEN /\ blame_entries' = collected.value
                /\ main_pc' = "joined"
           ELSE /\ blame_entries' = <<>>
                /\ main_pc' = "aborted"
    /\ UNCHANGED <<task_state, task_result, progress, incs, error_log>>
    /\ UNCHANGED <<rangeVars, repoVars, statVars, twoVars, dateVars, startVars, handleVars>>

\* line 293 and lines 294-299: join_all(tasks).await returns once every task is
\* done; the results are flattened.  Fame::process (line 385) returns early
\* with `?` if process_files returned an error.
JoinAll ==
    /\ main_pc = "joining"
    /\ \A f \in Range(file_names) : task_state[f] = "done"
    /\ LET results == [i \in 1..Len(file_names) |-> task_result[file_names[i]]]
           collected == collect_blame_entries(results)
       IN  IF collected.ok
           THEN /\ blame_entries' = collected.value
                /\ main_pc' = "joined"
           ELSE /\ blame_entries' = <<>>
                /\ main_pc' = "aborted"
    /\ UNCHANGED <<task_state, task_result, progress, incs, error_log>>
    /\ UNCHANGED <<rangeVars, repoVars, statVars, twoVars, dateVars, startVars, handleVars>>

\* line 301: progress.write().unwrap().finish(); indicatif's finish() moves
\* the bar to its length and marks it finished
FinishProgress ==
    /\ main_pc = "joined"
    /\ progress' = [progress EXCEPT !.pos = progress.len, !.finished = TRUE]
    /\ main_pc' = "finished"
    /\ UNCHANGED <<task_state, task_result, incs, error_log, blame_entries>>
    /\ UNCHANGED <<rangeVars, repoVars, statVars, twoVars, dateVars, startVars, handleVars>>

(***************************************************************************)
(* fame.rs: Fame::calculate_stats                                          *)
(***************************************************************************)
\* an f64 quotient a as f64 / b as f64, kept as the pair of its operands:
\* den = 0 is NaN (num = 0) or infinite (num > 0)
Ratio(a, b) == [num |-> a, den |-> b]

AuthorStats_new ==
    [author |-> "", lines |-> 0, file_count |-> 0, filenames |-> {}, commits |-> {},
     commits_count |-> 0, perc_lines |-> Ratio(0, 1), perc_files |-> Ratio(0, 1),
     perc_commits |-> Ratio(0, 1)]

\* ra.contains(&entry.author)
Restricted(ra, author) == IsSome(ra) /\ author \in Range(Unwrap(ra))

NoAcc == [author_stats |-> EmptyMap, total_commits |-> {}, total_lines |-> 0]

\* lines 314-331 with `break` where the code has `continue`
RECURSIVE AccumulateStats_break(_, _, _)
AccumulateStats_break(entries, ra, acc) ==
    IF entries = <<>> THEN acc
    ELSE LET entry == Head(entries) IN
         IF Restricted(ra, entry.author)
         THEN acc
         ELSE LET old == IF entry.author \in DOMAIN acc.author_stats
                         THEN acc.author_stats[entry.author] ELSE AuthorStats_new
                  new == [old EXCEPT !.commits = @ \cup {entry.commit_id},
                                     !.filenames = @ \cup {entry.file_name},
                                     !.lines = @ + entry.lines]
              IN  AccumulateStats_break(Tail(entries), ra,
                     [author_stats |-> [a \in DOMAIN acc.author_stats \cup {entry.author} |->
                                           IF a = entry.author THEN new ELSE acc.author_stats[a]],
                      total_commits |-> acc.total_commits \cup {entry.commit_id},
                      total_lines |-> acc.total_lines + entry.lines])

\* lines 314-331 with total_lines added up before the test of the author
RECURSIVE AccumulateStats_total_first(_, _, _)
AccumulateStats_total_first(entries, ra, acc) ==
    IF entries = <<>> THEN acc
    ELSE LET entry == Head(entries)
             counted == [acc EXCEPT !.total_lines = @ + entry.lines]
         IN
         IF Restricted(ra, entry.author)
         THEN AccumulateStats_total_first(Tail(entries), ra, counted)
         ELSE LET old == IF entry.author \in DOMAIN acc.author_stats
                         THEN acc.author_stats[entry.author] ELSE AuthorStats_new
                  new == [old EXCEPT !.commits = @ \cup {entry.commit_id},
                                     !.filenames = @ \cup {entry.file_name},
                                     !.lines = @ + entry.lines]
              IN  AccumulateStats_total_first(Tail(entries), ra,
                     [author_stats |-> [a \in DOMAIN acc.author_stats \cup {entry.author} |->
                                           IF a = entry.author THEN new ELSE acc.author_stats[a]],
                      total_commits |-> acc.total_commits \cup {entry.commit_id},
                      total_lines |-> counted.total_lines])

\* lines 314-331: the loop over blame_entries
RECURSIVE AccumulateStats(_, _, _)
AccumulateStats(entries, ra, acc) ==
    IF entries = <<>> THEN acc
    ELSE LET entry == Head(entries) IN
         IF Restricted(ra, entry.author)
         THEN AccumulateStats(Tail(entries), ra, acc)
         ELSE LET old == IF entry.author \in DOMAIN acc.author_stats
                         THEN acc.author_stats[entry.author] ELSE AuthorStats_new
                  new == [old EXCEPT !.commits = @ \cup {entry.commit_id},
                                     !.filenames = @ \cup {entry.file_name},
                                     !.lines = @ + entry.lines]
              IN  AccumulateStats(Tail(entries), ra,
                     [author_stats |-> [a \in DOMAIN acc.author_stats \cup {entry.author} |->
                                           IF a = entry.author THEN new ELSE acc.author_stats[a]],
                      total_commits |-> acc.total_commits \cup {entry.commit_id},
                      total_lines |-> acc.total_lines + entry.lines])

\* lines 333-335: author_stats.values().map(|s| s.filenames.len()).sum()
RECURSIVE SumFileCounts(_, _)
SumFileCounts(author_stats, authors) ==
    IF authors = {} THEN 0
    ELSE LET a == CHOOSE x \in authors : TRUE
         IN  Cardinality(author_stats[a].filenames) + SumFileCounts(author_stats, authors \ {a})

\* a comparator that reads commits_count whatever --sort says
SortKey_commits_only(st, sort_arg) == st.commits_count

\* lines 350-354: the key the comparator of sort_by reads
SortKey(st, sort_arg) ==
    IF sort_arg = Some("loc") THEN st.lines
    ELSE IF sort_arg = Some("files") THEN st.file_count
    ELSE st.commits_count

\* Vec::sort_by is a stable sort; with the comparator b.key.cmp(&a.key) an
\* element goes behind every element whose key is not smaller than its own
RECURSIVE InsertByKey(_, _, _)
InsertByKey(sorted, x, sort_arg) ==
    IF sorted = <<>> THEN <<x>>
    ELSE IF SortKey(Head(sorted), sort_arg) >= SortKey(x, sort_arg)
         THEN <<Head(sorted)>> \o InsertByKey(Tail(sorted), x, sort_arg)
         ELSE <<x>> \o sorted

RECURSIVE sort_by(_, _, _)
sort_by(unsorted, sorted, sort_arg) ==
    IF unsorted = <<>> THEN sorted
    ELSE sort_by(Tail(unsorted), InsertByKey(sorted, Head(unsorted), sort_arg), sort_arg)

\* lines 305-357; iteration_order is the order author_stats.into_iter() yields
\* the authors in (a HashMap's order is arbitrary)
calculate_stats(entries, ra, sort_arg, iteration_order) ==
    LET acc           == AccumulateStats(entries, ra, NoAcc)
        author_stats  == acc.author_stats
        total_files   == SumFileCounts(author_stats, DOMAIN author_stats)
        total_commits == Cardinality(acc.total_commits)
        finish(a)     == LET st == author_stats[a] IN
                         [st EXCEPT !.author = a,
                                    !.commits_count = Cardinality(st.commits),
                                    !.file_count = Cardinality(st.filenames),
                                    !.perc_files = Ratio(Cardinality(st.filenames), total_files),
                                    !.perc_commits = Ratio(Cardinality(st.commits), total_commits),
                                    !.perc_lines = Ratio(st.lines, acc.total_lines)]
        output        == [i \in 1..Len(iteration_order) |-> finish(iteration_order[i])]
    IN  [output |-> sort_by(output, <<>>, sort_arg),
         total_lines |-> acc.total_lines,
         total_files |-> total_files,
         total_commits |-> total_commits]

\* convert_string_list_to_vec(self.args.restrict_authors): None or the names
RestrictOptions == {None, Some(<<"al">>), Some(<<"bo">>), Some(<<"al", "bo">>)}
\* --sort: absent, 'commit', 'loc', 'files', or any other string (main.rs
\* takes the value as it is given)
SortOptions == {None, Some("commit"), Some("loc"), Some("files"), Some("name")}

\* lines 387-388 (with the arguments read at lines 350 and 370)
CalculateStats ==
    /\ main_pc = "finished"
    /\ \E ra \in RestrictOptions, sort_arg \in SortOptions :
          /\ restrict_authors' = ra
          /\ sort' = sort_arg
          /\ \E order \in Orderings(DOMAIN AccumulateStats(blame_entries, ra, NoAcc).author_stats) :
                stats' = calculate_stats(blame_entries, ra, sort_arg, order)
    /\ main_pc' = "reduced"
    /\ UNCHANGED <<task_state, task_result, progress, incs, error_log, blame_entries>>
    /\ UNCHANGED <<rangeVars, repoVars, twoVars, dateVars, startVars, handleVars>>

(***************************************************************************)
(* effort.rs: EffortProcessor::process_file                                *)
(***************************************************************************)
\* commit.time().seconds() of the commits
CommitTime == [c \in Commits |-> IF c = "c1" THEN 1 ELSE IF c = "c2" THEN 2 ELSE 3]

\* utils.rs convert_git_time: the instant of the timestamp as a DateTime in
\* the Local zone; it keeps the time of day
convert_git_time(seconds) == [timestamp |-> seconds, zone |-> "Local"]

EffortOutput_new(file) == [file |-> file, commits |-> 0, active_days |-> 0]

\* lines 115-129: the loop over blame.iter(); `break` at the first hunk whose
\* commit author is in restrict_authors
RECURSIVE EffortScan(_, _, _)
EffortScan(hunks, ra, acc) ==
    IF hunks = <<>> THEN acc
    ELSE LET hunk        == Head(hunks)
             commit_id   == hunk.commit
             commit_date == convert_git_time(CommitTime[commit_id])
             name        == CommitAuthor[commit_id]
         IN  IF Restricted(ra, name)
             THEN acc
             ELSE EffortScan(Tail(hunks), ra,
                             [effort_commits |-> acc.effort_commits \cup {commit_id},
                              effort_dates |-> acc.effort_dates \cup {commit_date}])

\* lines 90-136, once repo.blame_file has succeeded
process_file(hunks, file_name, ra) ==
    LET acc == EffortScan(hunks, ra, [effort_commits |-> {}, effort_dates |-> {}])
    IN  [EffortOutput_new(file_name) EXCEPT
            !.commits = Cardinality(acc.effort_commits),
            !.active_days = Cardinality(acc.effort_dates)]

(***************************************************************************)
(* effort.rs: Effort::process on a threaded_scheduler runtime: a spawned   *)
(* task starts at once on a worker thread and runs beside the spawning     *)
(* loop and the other tasks; the progress bar sits behind a RwLock.        *)
(***************************************************************************)
\* lines 181-211: the arguments, the processor, the progress bar, the runtime
EffortStart ==
    /\ main_pc = "start"
    /\ \E ra \in RestrictOptions : restrict_authors' = ra
    /\ progress' = [pos |-> 0, len |-> Len(file_names), finished |-> FALSE]
    /\ main_pc' = "spawning"
    /\ UNCHANGED <<task_state, task_result, incs, error_log, blame_entries, sort, stats>>
    /\ UNCHANGED <<rangeVars, repoVars, twoVars, dateVars, startVars, handleVars>>

\* lines 215-232: one round of the spawning loop
EffortSpawn ==
    /\ main_pc = "spawning"
    /\ LET i == CHOOSE j \in 1..Len(file_names) :
                   /\ task_state[file_names[j]] = "unspawned"
                   /\ \A k \in 1..(j - 1) : task_state[file_names[k]] # "unspawned"
       IN  /\ task_state' = [task_state EXCEPT ![file_names[i]] = "spawned"]
           /\ main_pc' = IF i = Len(file_names) THEN "joining" ELSE "spawning"
    /\ UNCHANGED <<task_result, progress, incs, error_log, blame_entries>>
    /\ UNCHANGED <<rangeVars, repoVars, statVars, twoVars, dateVars, startVars, handleVars>>

\* line 219 with 90-91: the task of file f, on a worker thread, begins
\* process_file by opening the repository; its `?` returns the error
EffortOpen(f) ==
    /\ task_state[f] = "spawned"
    /\ \E open_ok \in BOOLEAN :
          IF open_ok
          THEN LET opened == open_repository(repo_handles, f)
               IN  /\ repo_handles' = opened.handles
                   /\ task_handle' = [task_handle EXCEPT ![f] = Some(opened.handle)]
                   /\ task_state' = [task_state EXCEPT ![f] = "opened"]
                   /\ UNCHANGED task_result
          ELSE /\ task_result' = [task_result EXCEPT ![f] = Err]
               /\ task_state' = [task_state EXCEPT ![f] = "blamed"]
               /\ UNCHANGED handleVars
    /\ UNCHANGED <<main_pc, progress, incs, error_log, blame_entries>>
    /\ UNCHANGED <<rangeVars, repoVars, statVars, twoVars, dateVars, startVars>>

\* line 219 with 92-136: the blame of file f on the task's repository, which
\* is dropped when process_file returns
EffortProcessFile(f) ==
    /\ task_state[f] = "opened"
    /\ \E blame_ok \in BOOLEAN :
          task_result' = [task_result EXCEPT ![f] =
              IF blame_ok THEN Ok(process_file(repo_blame[f], f, restrict_authors)) ELSE Err]
    /\ repo_handles' = drop_repository(repo_handles, task_handle[f])
    /\ task_handle' = [task_handle EXCEPT ![f] = None]
    /\ task_state' = [task_state EXCEPT ![f] = "blamed"]
    /\ UNCHANGED <<main_pc, progress, incs, error_log, blame_entries>>
    /\ UNCHANGED <<rangeVars, repoVars, statVars, twoVars, dateVars, startVars>>

\* lines 221-230: .map increments the bar under the write lock, .map_err
\* logs the error and turns it into ()
EffortTaskEnd(f) ==
    /\ task_state[f] = "blamed"
    /\ IF task_result[f].ok
       THEN /\ progress' = [progress EXCEPT !.pos = @ + 1]
            /\ incs' = [incs EXCEPT ![f] = @ + 1]
            /\ UNCHANGED error_log
       ELSE /\ error_log' = error_log \cup {f}
            /\ UNCHANGED <<progress, incs>>
    /\ task_state' = [task_state EXCEPT ![f] = "done"]
    /\ UNCHANGED <<main_pc, task_result, blame_entries>>
    /\ UNCHANGED <<rangeVars, repoVars, statVars, twoVars, dateVars, startVars, handleVars>>

\* results.sort_by(|a, b| b.commits.cmp(&a.commits)), a stable sort
RECURSIVE InsertByCommits(_, _)
InsertByCommits(sorted, x) ==
    IF sorted = <<>> THEN <<x>>
    ELSE IF Head(sorted).commits >= x.commits
         THEN <<Head(sorted)>> \o InsertByCommits(Tail(sorted), x)
         ELSE <<x>> \o sorted

RECURSIVE effort_sort(_, _)
effort_sort(unsorted, sorted) ==
    IF unsorted = <<>> THEN sorted
    ELSE effort_sort(Tail(unsorted), InsertByCommits(sorted, Head(unsorted)))

\* lines 234-256: join_all returns once every task is done; the bar is
\* finished; jh.unwrap().unwrap() panics on the first task that returned Err;
\* otherwise the records are sorted and displayed
EffortJoin ==
    /\ main_pc = "joining"
    /\ \A f \in Range(file_names) : task_state[f] = "done"
    /\ progress' = [progress EXCEPT !.pos = progress.len, !.finished = TRUE]
    /\ LET jh_results == [i \in 1..Len(file_names) |-> task_result[file_names[i]]]
       IN  IF \E i \in 1..Len(jh_results) : ~jh_results[i].ok
           THEN /\ main_pc' = "panicked"
                /\ UNCHANGED stats
           ELSE /\ stats' = [stats EXCEPT !.output =
                                effort_sort([i \in 1..Len(jh_results) |-> jh_results[i].value],
                                            <<>>)]
                /\ main_pc' = "done"
    /\ UNCHANGED <<task_state, task_result, incs, error_log, blame_entries>>
    /\ UNCHANGED <<restrict_authors, sort>>
    /\ UNCHANGED <<rangeVars, repoVars, twoVars, dateVars, startVars, handleVars>>

(***************************************************************************)
(* fame_two.rs: Fame::process, one file of the loop of lines 161-174 per   *)
(* step; bp.process()? returns from the loop on the first failure.         *)
(***************************************************************************)
FameTwoProcessFile ==
    /\ two_pc = "running"
    /\ two_idx <= Len(file_names)
    /\ LET f == file_names[two_idx] IN
       \E blame_ok \in BOOLEAN :
          IF blame_ok
          THEN /\ \E bp_result \in Orderings(two_process_values(repo_blame[f])) :
                     per_file' = [g \in DOMAIN per_file \cup {f} |->
                                     IF g = f THEN bp_result ELSE per_file[g]]
               /\ two_idx' = two_idx + 1
               /\ two_pc' = IF two_idx = Len(file_names) THEN "done" ELSE "running"
          ELSE /\ two_pc' = "failed"
               /\ UNCHANGED <<two_idx, per_file>>
    /\ UNCHANGED <<rangeVars, repoVars, taskVars, statVars, dateVars, startVars, handleVars>>

(***************************************************************************)
(* Calendar.  A timestamp counts ticks since the epoch, TicksPerDay ticks  *)
(* to the day; a DateTime<Local> is an instant ([timestamp, zone]) shown   *)
(* in the Local zone, LocalOffset ticks ahead of UTC.  The epoch day       *)
(* (1970-01-01) is a Thursday.                                             *)
(***************************************************************************)
TicksPerDay == 2
LocalOffset == 1

\* d.year(), d.month(), d.day() of a DateTime<Local>: its local calendar
\* date, as the number of days since the epoch day (what format_date prints)
format_date(d) == (d.timestamp + LocalOffset) \div TicksPerDay

\* d.weekday(), counted from Monday = 0
Thu == 3
Sat == 5
Sun == 6
weekday(d) == (format_date(d) + Thu) % 7

\* last_date.add(Duration::days(1))
add_days(d, n) == [d EXCEPT !.timestamp = @ + n * TicksPerDay]

(***************************************************************************)
(* by_date.rs: ByDate::process_date                                        *)
(***************************************************************************)
\* lines 180-183; Local.from_utc_datetime(..) is the instant ts in the Local zone
\* the weekday of the UTC calendar date, not of the local one
is_weekend_utc(ts) ==
    LET d == ts \div TicksPerDay IN (d + Thu) % 7 = Sun \/ (d + Thu) % 7 = Sat

\* lines 180-183: d = Local.from_utc_datetime(from_timestamp(ts, 0))
is_weekend(ts) ==
    LET d == convert_git_time(ts) IN weekday(d) = Sun \/ weekday(d) = Sat

ByDateOutput_new(date, count) == [date |-> date, count |-> count]

\* lines 127-152: the filter over the walk.  start_date_sec / end_date_sec
\* come from DateTime::<Utc>::MIN_UTC / MAX_UTC (lines 95-110), so no commit
\* time is below the one or above the other.
filter_commit(commit_time, name, iw, ra) ==
    IF iw /\ is_weekend(commit_time) THEN FALSE
    ELSE IF Restricted(ra, name) THEN FALSE
    ELSE TRUE

\* the commits the filtered walk yields, newest first
RECURSIVE filtered_revwalk(_, _, _, _, _)
filtered_revwalk(walk, h, authors, iw, ra) ==
    IF walk = <<>> THEN <<>>
    ELSE LET id   == Head(walk)
             rest == filtered_revwalk(Tail(walk), h, authors, iw, ra)
         IN  IF filter_commit(h[id], authors[id], iw, ra) THEN <<id>> \o rest ELSE rest

\* lines 156-167: output_map is keyed by dt = convert_git_time(commit_time)
RECURSIVE BucketCommits(_, _, _)
BucketCommits(walk, h, output_map) ==
    IF walk = <<>> THEN output_map
    ELSE LET dt == convert_git_time(h[Head(walk)])
             v  == IF dt \in DOMAIN output_map THEN output_map[dt] ELSE ByDateOutput_new(dt, 0)
         IN  BucketCommits(Tail(walk), h,
                           [k \in DOMAIN output_map \cup {dt} |->
                               IF k = dt THEN [v EXCEPT !.count = @ + 1] ELSE output_map[k]])

\* #[derive(Ord)] on ByDateOutput { date, count }: by date, then by count
ByDateOutput_le(a, b) ==
    \/ a.date.timestamp < b.date.timestamp
    \/ a.date.timestamp = b.date.timestamp /\ a.count <= b.count

\* line 171: output.sort() of the map's values
RECURSIVE sort_output(_)
sort_output(values) ==
    IF values = {} THEN <<>>
    ELSE LET least == CHOOSE x \in values : \A y \in values : ByDateOutput_le(x, y)
         IN  <<least>> \o sort_output(values \ {least})

(***************************************************************************)
(* by_date.rs: ByDate::fill_date_gaps                                      *)
(***************************************************************************)
\* an insert that overwrites the element at i
InsertAt_overwrite(v, i, x) == SubSeq(v, 1, i - 1) \o <<x>> \o SubSeq(v, i + 1, Len(v))

\* Vec::insert(i, x), i counted from 1
InsertAt(v, i, x) == SubSeq(v, 1, i - 1) \o <<x>> \o SubSeq(v, i, Len(v))

\* lines 190-201, i counted from 1.  A round that inserts lengthens output by
\* one, so the test of line 198 fails after it and the next round compares
\* the same bucket with the next day; once last_date is past that bucket's
\* date no round can find them equal, and the loop runs until memory or the
\* range of DateTime is exhausted: the outcome "runaway".
RECURSIVE FillLoop(_, _, _)
FillLoop(output, i, last_date) ==
    LET differs  == output[i].date # last_date
        inserted == IF differs
                    THEN InsertAt(output, i, ByDateOutput_new(last_date, 0))
                    ELSE output
    IN  IF i + 1 > Len(inserted)
        THEN [outcome |-> "returned", output |-> inserted]
        ELSE IF differs /\ last_date.timestamp > output[i].date.timestamp
             THEN [outcome |-> "runaway", output |-> <<>>]
             ELSE FillLoop(inserted, i + 1, add_days(last_date, 1))

\* lines 185-204; input[0] of an empty Vec panics (index out of bounds)
fill_date_gaps(input) ==
    IF input = <<>>
    THEN [outcome |-> "panicked", output |-> <<>>]
    ELSE FillLoop(input, 1, input[1].date)

\* lines 112-171: open the repository, walk from HEAD, filter, count, sort.
\* revwalk.push_head()? returns the error of a repository without commits.
ProcessDateWalk ==
    /\ bd_pc = "start"
    /\ IF history = <<>>
       THEN /\ bd_pc' = "error"
            /\ UNCHANGED bd_output
       ELSE LET revwalk    == filtered_revwalk(Revwalk(history, FALSE), history, commit_authors,
                                               ignore_weekends, restrict_authors)
                output_map == BucketCommits(revwalk, history, EmptyMap)
            IN  /\ bd_output' = sort_output({output_map[k] : k \in DOMAIN output_map})
                /\ bd_pc' = "sorted"
    /\ UNCHANGED <<commit_authors, ignore_weekends, ignore_gap_fill, total_count>>
    /\ UNCHANGED <<rangeVars, repoVars, taskVars, statVars, twoVars, startVars, handleVars>>

\* lines 173-177: fill the gaps unless ignore_gap_fill, return the output
ProcessDateFill ==
    /\ bd_pc = "sorted"
    /\ IF ignore_gap_fill
       THEN /\ bd_pc' = "returned"
            /\ UNCHANGED bd_output
       ELSE LET filled == fill_date_gaps(bd_output)
            IN  /\ bd_pc' = filled.outcome
                /\ bd_output' = IF filled.outcome = "returned" THEN filled.output ELSE bd_output
    /\ UNCHANGED <<commit_authors, ignore_weekends, ignore_gap_fill, total_count>>
    /\ UNCHANGED <<rangeVars, repoVars, taskVars, statVars, twoVars, startVars, handleVars>>

(***************************************************************************)
(* by_date.rs: ByDate::display_text_output                                 *)
(***************************************************************************)
\* lines 219-225: total_count = 0, then total_count += r.count for each row
RECURSIVE sum_row_counts(_, _)
sum_row_counts(output, total) ==
    IF output = <<>> THEN total
    ELSE sum_row_counts(Tail(output), total + Head(output).count)

\* lines 206-234, called by ByDate::process (line 296) with the output that
\* process_date returned: one row per bucket, then the row ("Total", total_count)
DisplayTextOutput ==
    /\ bd_pc = "returned"
    /\ total_count' = sum_row_counts(bd_output, 0)
    /\ bd_pc' = "displayed"
    /\ UNCHANGED <<commit_authors, ignore_weekends, ignore_gap_fill, bd_output>>
    /\ UNCHANGED <<rangeVars, repoVars, taskVars, statVars, twoVars, startVars, handleVars>>

(***************************************************************************)
(* Initial states                                                          *)
(***************************************************************************)
DateIdle ==
    /\ commit_authors = <<>>
    /\ ignore_weekends = FALSE
    /\ ignore_gap_fill = FALSE
    /\ bd_pc = "idle"
    /\ bd_output = <<>>
    /\ total_count = 0

StartIdle ==
    /\ include = None
    /\ exclude = None
    /\ work_log = <<>>
    /\ startup_pc = "idle"

HandlesIdle ==
    /\ repo_handles = EmptyMap
    /\ task_handle = EmptyMap

\* no repository is open when the tasks are spawned: find_commit_range and
\* generate_file_list have returned and dropped theirs
HandlesInit ==
    /\ repo_handles = EmptyMap
    /\ task_handle = [f \in Range(file_names) |-> None]

NoStats == [output |-> <<>>, total_lines |-> 0, total_files |-> 0, total_commits |-> 0]

RepoIdle ==
    /\ file_names = <<>>
    /\ repo_blame = EmptyMap

TasksInit ==
    /\ main_pc = "start"
    /\ task_state = [f \in Range(file_names) |-> "unspawned"]
    /\ task_result = [f \in Range(file_names) |-> NotRun]
    /\ progress = [pos |-> 0, len |-> 0, finished |-> FALSE]
    /\ incs = [f \in Range(file_names) |-> 0]
    /\ error_log = {}
    /\ blame_entries = <<>>

TasksIdle ==
    /\ main_pc = "idle"
    /\ task_state = EmptyMap
    /\ task_result = EmptyMap
    /\ progress = [pos |-> 0, len |-> 0, finished |-> FALSE]
    /\ incs = EmptyMap
    /\ error_log = {}
    /\ blame_entries = <<>>

StatsInit ==
    /\ restrict_authors = None
    /\ sort = None
    /\ stats = NoStats

TwoInit ==
    /\ two_pc = "running"
    /\ two_idx = 1
    /\ per_file = EmptyMap

TwoIdle ==
    /\ two_pc = "idle"
    /\ two_idx = 1
    /\ per_file = EmptyMap

\* one tracked file with up to MaxHunks hunks of up to MaxLines lines
BlameInit ==
    /\ RangeIdle
    /\ file_names = <<"f1">>
    /\ repo_blame \in [{"f1"} -> SeqsUpTo(Hunks(MaxLines), MaxHunks)]
    /\ TasksInit
    /\ StatsInit
    /\ TwoInit
    /\ DateIdle
    /\ StartIdle
    /\ HandlesInit

BlameNext ==
    \/ SpawnTasks
    \/ \E f \in Range(file_names) : PollTask(f)
    \/ \E f \in Range(file_names) : RunTask(f)
    \/ FameTwoProcessFile

\* the repositories of the fame pipeline: FameFiles with at most MaxHunks
\* one-line hunks between them
FameFiles == <<"f1", "f2", "f3">>

RECURSIVE TotalHunks(_, _)
TotalHunks(rb, fs) ==
    IF fs = <<>> THEN 0 ELSE Len(rb[Head(fs)]) + TotalHunks(rb, Tail(fs))

FameInit ==
    /\ RangeIdle
    /\ file_names = FameFiles
    /\ repo_blame \in {rb \in [Range(FameFiles) -> SeqsUpTo(Hunks(1), MaxHunks)] :
                           TotalHunks(rb, FameFiles) <= MaxHunks}
    /\ TasksInit
    /\ StatsInit
    /\ TwoIdle
    /\ DateIdle
    /\ StartIdle
    /\ HandlesInit

FameNext ==
    \/ SpawnTasks
    \/ \E f \in Range(file_names) : PollTask(f)
    \/ \E f \in Range(file_names) : RunTask(f)
    \/ JoinAll
    \/ FinishProgress
    \/ CalculateStats

\* the repositories of the effort pipeline
EffortFiles == <<"f1", "f2">>

EffortInit ==
    /\ RangeIdle
    /\ file_names = EffortFiles
    /\ repo_blame \in {rb \in [Range(EffortFiles) -> SeqsUpTo(Hunks(1), MaxHunks)] :
                           TotalHunks(rb, EffortFiles) <= MaxHunks}
    /\ TasksInit
    /\ StatsInit
    /\ TwoIdle
    /\ DateIdle
    /\ StartIdle
    /\ HandlesInit

EffortNext ==
    \/ EffortStart
    \/ EffortSpawn
    \/ \E f \in Range(file_names) : EffortOpen(f)
    \/ \E f \in Range(file_names) : EffortProcessFile(f)
    \/ \E f \in Range(file_names) : EffortTaskEnd(f)
    \/ EffortJoin

(***************************************************************************)
(* Specifications                                                          *)
(***************************************************************************)
RangeSpecInit ==
    RangeInit /\ RepoIdle /\ TasksIdle /\ StatsInit /\ TwoIdle /\ DateIdle /\ StartIdle /\ HandlesIdle

\* the commit-range resolvers on every short history and date bounds
SpecRange == RangeSpecInit /\ [][RangeNext]_vars

\* the per-file blame aggregation of fame.rs and fame_two.rs on one file
SpecBlame == BlameInit /\ [][BlameNext]_vars

\* the fame pipeline: fan-out, join, reduction
SpecFame == FameInit /\ [][FameNext]_vars

\* the effort pipeline: fan-out on worker threads, join, sort
SpecEffort == EffortInit /\ [][EffortNext]_vars

\* Fame::calculate_stats on its own: the function takes any Vec<BlameEntry>;
\* lines is an i32 field, here 0..MaxLines
StatsFiles == {"f1", "f2"}
BlameEntries ==
    {[author |-> CommitAuthor[c], commit_id |-> c, lines |-> l, file_name |-> f] :
        c \in Commits, l \in 0..MaxLines, f \in StatsFiles}

StatsSpecInit ==
    /\ RangeIdle
    /\ RepoIdle
    /\ main_pc = "finished"
    /\ task_state = EmptyMap
    /\ task_result = EmptyMap
    /\ progress = [pos |-> 0, len |-> 0, finished |-> TRUE]
    /\ incs = EmptyMap
    /\ error_log = {}
    /\ blame_entries \in SeqsUpTo(BlameEntries, MaxEntries)
    /\ StatsInit
    /\ TwoIdle
    /\ DateIdle
    /\ StartIdle
    /\ HandlesIdle

StatsNext == CalculateStats

SpecStats == StatsSpecInit /\ [][StatsNext]_vars

\* the start of Fame::process / Effort::process: the commit range and the
\* file list, for every short history, date bounds and glob arguments
GlobOptions == {None, Some(<<"*">>), Some(<<"f1">>), Some(<<"[">>), Some(<<"f1", "[">>)}

StartupInit ==
    /\ history \in SeqsUpTo(Times, MaxCommits)
    /\ start_date \in DateBounds
    /\ end_date \in DateBounds
    /\ range_pc = "start"
    /\ commit_range = NoRange
    /\ gu_pc = "idle"
    /\ gu_range = NoRange
    /\ RepoIdle
    /\ TasksIdle
    /\ StatsInit
    /\ TwoIdle
    /\ DateIdle
    /\ include \in GlobOptions
    /\ exclude \in GlobOptions
    /\ work_log = <<>>
    /\ startup_pc = "start"
    /\ HandlesIdle

StartupNext == ResolveRange \/ GenerateFileList

SpecStartup == StartupInit /\ [][StartupNext]_vars

\* the by-date pipeline: the commits of HEAD's history with their timestamps
\* and authors, and the command line's switches
Stamps == 0..MaxStamp

ByDateInit ==
    /\ history \in SeqsUpTo(Stamps, MaxDateCommits)
    /\ commit_authors \in [1..Len(history) -> Authors]
    /\ start_date = None
    /\ end_date = None
    /\ range_pc = "idle"
    /\ commit_range = NoRange
    /\ gu_pc = "idle"
    /\ gu_range = NoRange
    /\ RepoIdle
    /\ TasksIdle
    /\ restrict_authors \in RestrictOptions
    /\ sort = None
    /\ stats = NoStats
    /\ TwoIdle
    /\ ignore_weekends \in BOOLEAN
    /\ ignore_gap_fill \in BOOLEAN
    /\ bd_pc = "start"
    /\ bd_output = <<>>
    /\ total_count = 0
    /\ StartIdle
    /\ HandlesIdle

ByDateNext == ProcessDateWalk \/ ProcessDateFill \/ DisplayTextOutput

SpecByDate == ByDateInit /\ [][ByDateNext]_vars

\* the by-date pipeline called with start and end dates (ByDateArgs::new,
\* lines 29-49): the dates are local instants
ByDateDates == {None, Some(2), Some(4)}

ByDateArgsInit ==
    /\ history \in SeqsUpTo(Stamps, MaxDateCommits)
    /\ commit_authors \in [1..Len(history) -> Authors]
    /\ start_date \in ByDateDates
    /\ end_date \in ByDateDates
    /\ range_pc = "idle"
    /\ commit_range = NoRange
    /\ gu_pc = "idle"
    /\ gu_range = NoRange
    /\ RepoIdle
    /\ TasksIdle
    /\ restrict_authors \in RestrictOptions
    /\ sort = None
    /\ stats = NoStats
    /\ TwoIdle
    /\ ignore_weekends \in BOOLEAN
    /\ ignore_gap_fill \in BOOLEAN
    /\ bd_pc = "start"
    /\ bd_output = <<>>
    /\ total_count = 0
    /\ StartIdle
    /\ HandlesIdle

SpecByDateArgs == ByDateArgsInit /\ [][ByDateNext]_vars

(***************************************************************************)
(* Claims about the commit-range resolver (checked under SpecRange)        *)
(***************************************************************************)
\* the commits of h that pass a bound's test, in the order of a walk
RECURSIVE FirstInWalk(_, _)
FirstInWalk(walk, Q) ==
    IF walk = <<>> THEN None
    ELSE IF Head(walk) \in Q THEN Some(Head(walk)) ELSE FirstInWalk(Tail(walk), Q)

AtOrAfter(h, s) == {i \in 1..Len(h) : h[i] >= s}
AtOrBefore(h, e) == {i \in 1..Len(h) : h[i] <= e}

C2_EarliestIsOldestAtOrAfterStart ==
    (range_pc = "resolved" /\ IsSome(start_date) /\ commit_range.ok)
        => commit_range.earliest =
              FirstInWalk(Revwalk(history, TRUE), AtOrAfter(history, Unwrap(start_date)))

\* C3: when end is present, latest is the newest commit reachable from the
\* tip whose timestamp is <= end (the first such commit in newest-first
\* order), for every commit history; latest is None only if no commit has
\* timestamp <= end.
C3_LatestIsNewestAtOrBeforeEnd ==
    (range_pc = "resolved" /\ IsSome(end_date) /\ commit_range.ok)
        => commit_range.latest =
              FirstInWalk(Revwalk(history, FALSE), AtOrBefore(history, Unwrap(end_date)))

\* Sanity of the two refutations: on a history whose commit times never
\* decrease from the root to the tip the resolver does return those commits.
Chronological(h) == \A i \in 1..(Len(h) - 1) : h[i] <= h[i + 1]

RangeAgreesOnChronologicalHistory ==
    (range_pc = "resolved" /\ commit_range.ok /\ Chronological(history))
        => /\ IsSome(start_date) =>
                commit_range.earliest =
                  FirstInWalk(Revwalk(history, TRUE), AtOrAfter(history, Unwrap(start_date)))
           /\ IsSome(end_date) =>
                commit_range.latest =
                  FirstInWalk(Revwalk(history, FALSE), AtOrBefore(history, Unwrap(end_date)))

(***************************************************************************)
(* Claims about the per-file blame aggregation (checked under SpecBlame)   *)
(***************************************************************************)
\* the distinct (author, commit id) pairs among a file's blame hunks
HunkPairs(hunks) ==
    {<<CommitAuthor[hunks[i].commit], hunks[i].commit>> : i \in 1..Len(hunks)}

\* records: one per pair of the hunks, none for another pair, lines conserved
OnePerPairAndConserved(records, hunks) ==
    /\ \A pair \in HunkPairs(hunks) :
          Cardinality({i \in 1..Len(records) :
                          <<records[i].author, records[i].commit_id>> = pair}) = 1
    /\ \A i \in 1..Len(records) :
          <<records[i].author, records[i].commit_id>> \in HunkPairs(hunks)
    /\ SumLines(records) = SumLines(hunks)

\* C4: for every file, BlameProcessor::process returns exactly one record per
\* distinct (author, commit id) pair among the file's blame hunks, each tagged
\* with the file name, and the lines of the file's records add up to the
\* lines_in_hunk of all of the file's hunks (fame.rs and fame_two.rs alike;
\* fame_two.rs tags by storing the records under the file name in per_file).
C4_OneRecordPerPairLinesConserved ==
    /\ \A f \in DOMAIN task_result :
          (task_state[f] = "done" /\ task_result[f].ok)
             => /\ OnePerPairAndConserved(task_result[f].value, repo_blame[f])
                /\ \A i \in 1..Len(task_result[f].value) :
                      task_result[f].value[i].file_name = f
    /\ \A f \in DOMAIN per_file :
          OnePerPairAndConserved(per_file[f], repo_blame[f])

\* both versions have blamed a file in which one (author, commit) pair owns
\* two hunks and another pair owns a third
C4_Witness ==
    /\ task_state["f1"] = "done" /\ task_result["f1"].ok
    /\ "f1" \in DOMAIN per_file
    /\ Len(repo_blame["f1"]) = 3
    /\ Cardinality(HunkPairs(repo_blame["f1"])) = 2
    /\ Len(task_result["f1"].value) = 2
    /\ Len(per_file["f1"]) = 2

(***************************************************************************)
(* Claims about the fame pipeline (checked under SpecFame)                 *)
(***************************************************************************)
Joined == main_pc \in {"joined", "finished", "reduced"}

\* C5: the shared progress counter is incremented exactly once per file task,
\* whether the file's blame succeeded or failed, so that once all tasks are
\* joined the counter equals the number of files.
C5_ProgressOncePerFile ==
    main_pc = "joined"
        => /\ \A f \in Range(file_names) : incs[f] = 1
           /\ progress.pos = Len(file_names)

\* the records of one file within a list of blame entries, in their order
RecordsOfFile(entries, f) == SelectSeq(entries, LAMBDA e : e.file_name = f)

\* C6: in Fame::process_files, when blame fails for any subset of the files
\* the run still completes successfully, and the flattened result holds
\* exactly the records of every file whose blame succeeded and no record of a
\* failed file.
C6_FailedFilesDropped ==
    /\ main_pc # "aborted"
    /\ Joined =>
          /\ \A f \in Range(file_names) :
                RecordsOfFile(blame_entries, f) =
                    IF task_result[f].ok THEN task_result[f].value ELSE <<>>
          /\ \A i \in 1..Len(blame_entries) :
                blame_entries[i].file_name \in Range(file_names)

\* the run went through to the reduction although the blame of a file with
\* hunks failed, and another file's records are in the flattened result
C6_Witness ==
    /\ main_pc = "reduced"
    /\ \E f, g \in Range(file_names) :
          /\ ~task_result[f].ok /\ repo_blame[f] # <<>>
          /\ task_result[g].ok /\ RecordsOfFile(blame_entries, g) # <<>>

\* C8: total_files, the denominator of perc_files, is the number of distinct
\* file paths in the union of the included authors' file sets: a file touched
\* by several authors counts once.
C8_TotalFilesIsUnion ==
    main_pc = "reduced"
        => stats.total_files =
              Cardinality(UNION {stats.output[i].filenames : i \in 1..Len(stats.output)})

\* what the records of one author add up to
RecordsOfAuthor(entries, a) == SelectSeq(entries, LAMBDA e : e.author = a)

\* C9: calculate_stats drops every blame record whose author equals a name of
\* the exclude list and keeps every other record: no excluded author is in
\* the output, and each other author has one output entry whose lines, commit
\* set and file set come from all of that author's records, wherever the
\* excluded records stand in the input.
C9_ExcludedDroppedOthersKept ==
    main_pc = "reduced"
        => /\ \A i \in 1..Len(stats.output) :
                /\ ~Restricted(restrict_authors, stats.output[i].author)
                /\ RecordsOfAuthor(blame_entries, stats.output[i].author) # <<>>
           /\ \A a \in Authors :
                LET mine == RecordsOfAuthor(blame_entries, a) IN
                (mine # <<>> /\ ~Restricted(restrict_authors, a))
                   => /\ Cardinality({i \in 1..Len(stats.output) :
                                         stats.output[i].author = a}) = 1
                      /\ \A i \in 1..Len(stats.output) :
                            stats.output[i].author = a
                               => /\ stats.output[i].lines = SumLines(mine)
                                  /\ stats.output[i].commits =
                                        {mine[j].commit_id : j \in 1..Len(mine)}
                                  /\ stats.output[i].filenames =
                                        {mine[j].file_name : j \in 1..Len(mine)}

\* "al" is excluded, a record of "al" stands before a record of "bo" in the
\* input, and "bo" is in the output
C9_Witness ==
    /\ main_pc = "reduced"
    /\ restrict_authors = Some(<<"al">>)
    /\ \E i, j \in 1..Len(blame_entries) :
          i < j /\ blame_entries[i].author = "al" /\ blame_entries[j].author = "bo"
    /\ \E i \in 1..Len(stats.output) : stats.output[i].author = "bo"

\* the authors' names in ascending order
AuthorOrder == <<"al", "bo">>
AuthorRank(a) == CHOOSE i \in 1..Len(AuthorOrder) : AuthorOrder[i] = a

\* C10: the fame output is sorted descending by the requested key, ties broken
\* by author name ascending: two adjacent entries with equal key are in
\* ascending order of author name.
C10_TiesByAuthorName ==
    main_pc = "reduced"
        => \A i \in 1..(Len(stats.output) - 1) :
              LET a == stats.output[i]
                  b == stats.output[i + 1]
              IN  /\ SortKey(a, sort) >= SortKey(b, sort)
                  /\ SortKey(a, sort) = SortKey(b, sort)
                        => AuthorRank(a.author) < AuthorRank(b.author)

(***************************************************************************)
(* Claims about the effort pipeline (checked under SpecEffort)             *)
(***************************************************************************)
EffortEnded == main_pc \in {"done", "panicked"}

\* C7: in Effort::process a blame failure on a single file is recoverable:
\* the failure is logged, the file contributes no EffortRecord, and the run
\* goes on and outputs the records of all other files instead of aborting.
C7_EffortBlameFailureRecoverable ==
    EffortEnded
        => /\ main_pc = "done"
           /\ \A f \in Range(file_names) :
                 IF task_result[f].ok
                 THEN \E i \in 1..Len(stats.output) : stats.output[i] = task_result[f].value
                 ELSE /\ f \in error_log
                      /\ \A i \in 1..Len(stats.output) : stats.output[i].file # f

(***************************************************************************)
(* Claims about the statistics reduction (checked under SpecFame)          *)
(***************************************************************************)
\* every order the flattened blame records can arrive in
PermutationsOf(s) == {[i \in 1..Len(s) |-> s[p[i]]] : p \in Orderings(1..Len(s))}

\* every result calculate_stats can return for the blame records of the
\* state, over the orders of the records and the HashMap's iteration orders
RunsOfCalculateStats ==
    {calculate_stats(entries, restrict_authors, sort, order) :
        entries \in PermutationsOf(blame_entries),
        order \in Orderings(DOMAIN AccumulateStats(blame_entries, restrict_authors, NoAcc).author_stats)}

\* C11: for a fixed repository state and commit range, the ordered AuthorStats
\* list the fame pipeline produces is the same for every task completion
\* order (every permutation of the flattened blame records) and every
\* worker-pool size: every run of the reduction on the same records returns
\* the list this run returned.
C11_OutputDeterministic ==
    main_pc = "reduced"
        => \A run \in RunsOfCalculateStats : run.output = stats.output

\* Sanity of the refutation: the runs differ in the order of the list only;
\* the entries and the totals are the same in every run.
StatsSetIndependentOfOrder ==
    main_pc = "reduced"
        => \A run \in RunsOfCalculateStats :
              /\ Range(run.output) = Range(stats.output)
              /\ Len(run.output) = Len(stats.output)
              /\ run.total_lines = stats.total_lines
              /\ run.total_files = stats.total_files
              /\ run.total_commits = stats.total_commits

\* the field the output is to be ordered by, for a --sort argument
SelectedKey(st, sort_arg) ==
    CASE sort_arg = Some("loc")   -> st.lines
      [] sort_arg = Some("files") -> st.file_count
      [] OTHER                    -> st.commits_count

\* the authors that have a blame record and are not excluded
IncludedAuthors ==
    {a \in Authors : /\ RecordsOfAuthor(blame_entries, a) # <<>>
                     /\ ~Restricted(restrict_authors, a)}

\* C12: the output is non-increasing in the selected key (lines for 'loc',
\* file_count for 'files', commits_count for any other or absent key), and it
\* is a permutation of the per-author stats: each included author is in it
\* exactly once and nothing else is.
C12_SortedNonIncreasingPermutation ==
    main_pc = "reduced"
        => /\ \A i \in 1..(Len(stats.output) - 1) :
                 SelectedKey(stats.output[i], sort) >= SelectedKey(stats.output[i + 1], sort)
           /\ \A a \in IncludedAuthors :
                 Cardinality({i \in 1..Len(stats.output) : stats.output[i].author = a}) = 1
           /\ Len(stats.output) = Cardinality(IncludedAuthors)
           /\ \A i \in 1..Len(stats.output) :
                 /\ stats.output[i].commits_count = Cardinality(stats.output[i].commits)
                 /\ stats.output[i].file_count = Cardinality(stats.output[i].filenames)

\* sorted by 'loc': two authors with the same number of commits and different
\* numbers of lines, the one with more lines first
C12_Witness ==
    /\ main_pc = "reduced"
    /\ sort = Some("loc")
    /\ Len(stats.output) = 2
    /\ stats.output[1].commits_count = stats.output[2].commits_count
    /\ stats.output[1].lines > stats.output[2].lines

(***************************************************************************)
(* Claims about the percentages (C13 checked under SpecStats)              *)
(***************************************************************************)
\* IEEE 754 on the operands of a quotient: x / 0.0 is NaN for x = 0 and
\* infinite for x > 0; NaN equals nothing
F64IsNaN(r) == r.den = 0 /\ r.num = 0
F64IsFinite(r) == r.den # 0
F64Eq(r, q) == F64IsFinite(r) /\ F64IsFinite(q) /\ r.num * q.den = q.num * r.den

\* count/denominator, 0.0 if the denominator is 0
Percentage(count, denominator) ==
    IF denominator = 0 THEN Ratio(0, 1) ELSE Ratio(count, denominator)

PercentagesAreQuotients ==
    main_pc = "reduced"
        => \A i \in 1..Len(stats.output) :
              LET st == stats.output[i] IN
              /\ stats.total_lines # 0
                    => F64Eq(st.perc_lines, Ratio(st.lines, stats.total_lines))
              /\ F64Eq(st.perc_commits, Ratio(st.commits_count, stats.total_commits))
              /\ F64Eq(st.perc_files, Ratio(st.file_count, stats.total_files))

\* the same through the pipeline, where every hunk has at least one line:
\* no percentage of the output is NaN or infinite
FamePercentagesFinite ==
    main_pc = "reduced"
        => \A i \in 1..Len(stats.output) :
              /\ F64IsFinite(stats.output[i].perc_lines)
              /\ F64IsFinite(stats.output[i].perc_commits)
              /\ F64IsFinite(stats.output[i].perc_files)

\* the numerators of the perc_lines values of an output, added up
RECURSIVE SumPercLinesNum(_)
SumPercLinesNum(output) ==
    IF output = <<>> THEN 0 ELSE Head(output).perc_lines.num + SumPercLinesNum(Tail(output))

\* C14: for a non-empty output with total_lines > 0 the authors' lines add up
\* to total_lines, so the perc_lines values (each lines / total_lines) add up
\* to 1.
C14_LinesSumToTotal ==
    (main_pc = "reduced" /\ stats.output # <<>> /\ stats.total_lines > 0)
        => /\ SumLines(stats.output) = stats.total_lines
           /\ \A i \in 1..Len(stats.output) :
                 stats.output[i].perc_lines.den = stats.total_lines
           /\ SumPercLinesNum(stats.output) = stats.total_lines

\* two authors have records, one of them is excluded, the other is in the
\* output
C14_Witness ==
    /\ main_pc = "reduced"
    /\ restrict_authors = Some(<<"al">>)
    /\ RecordsOfAuthor(blame_entries, "al") # <<>>
    /\ Len(stats.output) = 1
    /\ stats.output[1].author = "bo"
    /\ stats.total_lines > 0

(***************************************************************************)
(* Claims about the by-date pipeline (checked under SpecByDate)            *)
(***************************************************************************)
\* the local calendar date of a commit timestamp, in days since the epoch day
LocalDateOf(ts) == (ts + LocalOffset) \div TicksPerDay
IsSatOrSun(date) == (date + Thu) % 7 \in {Sat, Sun}

\* the commits that are counted: not on a weekend when weekends are ignored,
\* not by an excluded author
CountedCommits ==
    {i \in 1..Len(history) :
        /\ ~(ignore_weekends /\ IsSatOrSun(LocalDateOf(history[i])))
        /\ ~Restricted(restrict_authors, commit_authors[i])}

BucketDate(b) == LocalDateOf(b.date.timestamp)

\* C15: the buckets group the commits by local calendar date: at most one
\* bucket per date, its count the number of counted commits of that date (two
\* commits of one day at different times are in one bucket), the buckets in
\* strictly ascending order of date.
C15_OneBucketPerLocalDate ==
    bd_pc = "sorted"
        => /\ \A i, j \in 1..Len(bd_output) :
                 i < j => BucketDate(bd_output[i]) < BucketDate(bd_output[j])
           /\ \A i \in 1..Len(bd_output) :
                 bd_output[i].count =
                    Cardinality({c \in CountedCommits :
                                    LocalDateOf(history[c]) = BucketDate(bd_output[i])})
           /\ \A c \in CountedCommits :
                 \E i \in 1..Len(bd_output) : BucketDate(bd_output[i]) = LocalDateOf(history[c])

\* Sanity of the refutation: the buckets are one per commit instant, in
\* strictly ascending order of instant, each counting the commits of its instant.
OneBucketPerInstant ==
    bd_pc = "sorted"
        => /\ \A i, j \in 1..Len(bd_output) :
                 i < j => bd_output[i].date.timestamp < bd_output[j].date.timestamp
           /\ \A i \in 1..Len(bd_output) :
                 bd_output[i].count =
                    Cardinality({c \in CountedCommits : history[c] = bd_output[i].date.timestamp})
           /\ \A c \in CountedCommits :
                 \E i \in 1..Len(bd_output) : bd_output[i].date.timestamp = history[c]

\* C16: with weekend exclusion active no bucket of the output has a Saturday
\* or Sunday date, be its count positive or a zero put in by gap-filling.
C16_NoWeekendBuckets ==
    (bd_pc = "returned" /\ ignore_weekends)
        => \A i \in 1..Len(bd_output) : ~IsSatOrSun(BucketDate(bd_output[i]))

\* Sanity of the refutation: before the gaps are filled no bucket is on a
\* weekend.
NoWeekendBucketsBeforeFill ==
    (bd_pc = "sorted" /\ ignore_weekends)
        => \A i \in 1..Len(bd_output) : ~IsSatOrSun(BucketDate(bd_output[i]))

\* what fill_date_gaps is to return for an input: from the first to the last
\* input date, one bucket for every calendar day, the input buckets kept
\* with their counts, every other bucket with count 0
FilledCorrectly(input, filled) ==
    /\ filled # <<>>
    /\ BucketDate(filled[1]) = BucketDate(input[1])
    /\ BucketDate(filled[Len(filled)]) = BucketDate(input[Len(input)])
    /\ \A i \in 1..(Len(filled) - 1) :
          BucketDate(filled[i + 1]) = BucketDate(filled[i]) + 1
    /\ \A i \in 1..Len(input) :
          Cardinality({j \in 1..Len(filled) : filled[j] = input[i]}) = 1
    /\ \A j \in 1..Len(filled) :
          filled[j] \notin Range(input) => filled[j].count = 0

\* process_date is about to fill the gaps of a non-empty list
FillsGaps == bd_pc = "sorted" /\ ~ignore_gap_fill /\ bd_output # <<>>

\* C17: fill_date_gaps applied to a non-empty list of buckets sorted ascending
\* by date returns a list that starts at the first and ends at the last input
\* date, has exactly one bucket for every calendar day in between, keeps each
\* input bucket with its count and gives each inserted bucket count 0; it
\* never extends the range.
C17_FillDateGaps ==
    [][FillsGaps => (bd_pc' = "returned" /\ FilledCorrectly(bd_output, bd_output'))]_vars

\* Sanity of the refutation: fill_date_gaps does return that list when every
\* input bucket is a whole number of days after the first (as in
\* test_fill_date_gaps, whose dates are local midnights).
WholeDaysApart(input) ==
    \A i \in 1..Len(input) :
        (input[i].date.timestamp - input[1].date.timestamp) % TicksPerDay = 0

FillDateGapsOnWholeDays ==
    [][(FillsGaps /\ WholeDaysApart(bd_output))
          => (bd_pc' = "returned" /\ FilledCorrectly(bd_output, bd_output'))]_vars

\* C18: when no commit is counted (the history is empty, or the weekend and
\* author filters drop every commit) the by-date pipeline returns an empty
\* bucket list without error, with gap-filling on or off.
C18_NothingCountedGivesEmptyList ==
    (bd_pc \notin {"start", "sorted"} /\ CountedCommits = {})
        => (bd_pc = "returned" /\ bd_output = <<>>)

\* Sanity of the refutation: with gap-filling off and at least one commit in
\* the history, nothing counted gives the empty list.
NothingCountedWithoutGapFill ==
    (bd_pc \notin {"start", "sorted"} /\ CountedCommits = {}
       /\ history # <<>> /\ ignore_gap_fill)
        => (bd_pc = "returned" /\ bd_output = <<>>)

(***************************************************************************)
(* Claims about the effort records (checked under SpecEffort)              *)
(***************************************************************************)
\* the EffortRecords of file f in the output
EffortRecordsOf(f) == {i \in 1..Len(stats.output) : stats.output[i].file = f}

\* the final commit ids of a file's hunks, and those by authors not excluded
HunkCommits(f) == {repo_blame[f][i].commit : i \in 1..Len(repo_blame[f])}
IncludedHunkCommits(f) ==
    {c \in HunkCommits(f) : ~Restricted(restrict_authors, CommitAuthor[c])}

EffortCountsCommitsAndInstants ==
    (main_pc = "done" /\ restrict_authors = None)
        => \A f \in Range(file_names) :
              /\ Cardinality(EffortRecordsOf(f)) = 1
              /\ \A i \in EffortRecordsOf(f) :
                    /\ stats.output[i].commits = Cardinality(HunkCommits(f))
                    /\ stats.output[i].active_days =
                          Cardinality({CommitTime[c] : c \in HunkCommits(f)})

\* C20: author restriction filters the hunks one by one: a hunk whose commit
\* author is in the restricted list is skipped and every hunk of another
\* author is counted, whether it stands before or after a restricted
\* author's hunk in the blame.
C20_RestrictionFiltersEachHunk ==
    main_pc = "done"
        => \A f \in Range(file_names) :
              \A i \in EffortRecordsOf(f) :
                 stats.output[i].commits = Cardinality(IncludedHunkCommits(f))

\* Sanity of the refutation: the hunks in front of the first restricted
\* author's hunk are counted, none from that hunk on.
RECURSIVE HunksBeforeRestricted(_, _)
HunksBeforeRestricted(hunks, ra) ==
    IF hunks = <<>> \/ Restricted(ra, CommitAuthor[Head(hunks).commit]) THEN {}
    ELSE {Head(hunks).commit} \cup HunksBeforeRestricted(Tail(hunks), ra)

EffortStopsAtRestrictedHunk ==
    main_pc = "done"
        => \A f \in Range(file_names) :
              \A i \in EffortRecordsOf(f) :
                 stats.output[i].commits =
                    Cardinality(HunksBeforeRestricted(repo_blame[f], restrict_authors))

(***************************************************************************)
(* Claims about the start of an analysis (checked under SpecStartup)       *)
(***************************************************************************)
\* C21: a malformed include or exclude glob makes the run fail before any
\* work begins: when the pattern error is raised no repository has been
\* opened, no revision walk made, no file status listed and no blame task
\* started.
C21_GlobErrorBeforeAnyWork ==
    startup_pc = "pattern_error"
        => /\ work_log = <<>>
           /\ main_pc = "idle"

\* Sanity of the refutation: a malformed glob does fail the run, after the
\* commit range was resolved and the statuses were listed and before any blame
\* task is started, and a run whose globs are well formed gets its file list.
WellFormed(arg) == ~IsSome(arg) \/ "[" \notin Range(Unwrap(arg))

GlobErrorAfterStatuses ==
    /\ startup_pc = "pattern_error"
          => /\ ~(WellFormed(include) /\ WellFormed(exclude))
             /\ work_log[Len(work_log)] = "repo.statuses"
             /\ main_pc = "idle"
    /\ startup_pc = "listed" => (WellFormed(include) /\ WellFormed(exclude))

(***************************************************************************)
(* Claims about the date bounds of the by-date output (checked under       *)
(* SpecByDateArgs)                                                         *)
(***************************************************************************)
\* C22: the by-date analysis honours its optional start and end dates: when
\* a start and/or an end date is given, every bucket that counts a commit
\* lies within the bounds (not before the start, not after the end's day).
C22_ByDateHonoursBounds ==
    bd_pc = "sorted"
        => \A i \in 1..Len(bd_output) :
              bd_output[i].count > 0
                 => /\ IsSome(start_date) => bd_output[i].date.timestamp >= Unwrap(start_date)
                    /\ IsSome(end_date)
                          => LocalDateOf(bd_output[i].date.timestamp)
                                <= LocalDateOf(Unwrap(end_date))

\* Sanity of the refutation: the dates play no part, every commit the other
\* filters let through is counted whatever the bounds are.
ByDateIgnoresBounds ==
    bd_pc = "sorted"
        => {bd_output[i].date.timestamp : i \in 1..Len(bd_output)}
              = {history[i] : i \in CountedCommits}

(***************************************************************************)
(* Claims about the by-date walk and its totals (checked under SpecByDate) *)
(***************************************************************************)
\* C23: is_weekend(ts) is true exactly when the local calendar date of ts is
\* a Saturday or a Sunday: with ignore_weekends, a commit of an author who is
\* not excluded is dropped by the walk exactly when its local date is a
\* Saturday or a Sunday (local midnight of a Sunday is dropped, local midnight
\* of the following Monday is kept).
C23_IsWeekendIsLocalSatOrSun ==
    (bd_pc = "sorted" /\ ignore_weekends)
        => \A i \in 1..Len(history) :
              ~Restricted(restrict_authors, commit_authors[i])
                 => ((\E j \in 1..Len(bd_output) : bd_output[j].date.timestamp = history[i])
                        <=> ~IsSatOrSun(LocalDateOf(history[i])))

\* local midnight of the first Sunday is 3 days after the epoch day's local
\* midnight, that of the Monday 4 days after
SundayMidnight == 3 * TicksPerDay - LocalOffset
MondayMidnight == 4 * TicksPerDay - LocalOffset

C23_Witness ==
    /\ bd_pc = "sorted"
    /\ ignore_weekends
    /\ history = <<SundayMidnight, MondayMidnight>>
    /\ \A i \in 1..2 : ~Restricted(restrict_authors, commit_authors[i])
    /\ Len(bd_output) = 1
    /\ bd_output[1].date.timestamp = MondayMidnight
    /\ bd_output[1].count = 1

(***************************************************************************)
(* Claims about the tasks of the fame and the effort pipelines             *)
(***************************************************************************)
AllTasksDone == \A f \in Range(file_names) : task_state[f] = "done"

\* C24: the merge/reduce phase starts only after every file task has
\* completed: once the join has returned (and whenever blame records have
\* been collected for calculate_stats) every spawned task is done, and a
\* task's result, once written, is never written again.
C24_ReduceAfterJoin ==
    /\ [](/\ main_pc \in {"joined", "finished", "reduced", "aborted"} => AllTasksDone
          /\ blame_entries # <<>> => AllTasksDone)
    /\ [][\A f \in Range(file_names) :
             task_result[f] # NotRun => task_result'[f] = task_result[f]]_vars

C24_Witness ==
    /\ main_pc = "reduced"
    /\ AllTasksDone
    /\ blame_entries # <<>>
    /\ \E f \in Range(file_names) : ~task_result[f].ok

\* The same for the effort pipeline (under SpecEffort): the sort runs, or the
\* unwrap of a failed result panics, only when every task is done.
EffortSortAfterJoin ==
    main_pc \in {"done", "panicked"} => AllTasksDone

\* C25: a slow blame on one file does not block the other files: while one
\* file's blame task is in progress, the task of any other file that has not
\* started yet can start.
C25_SlowBlameDoesNotBlock ==
    \A f, g \in Range(file_names) :
        (task_state[f] = "running" /\ task_state[g] = "spawned") => ENABLED PollTask(g)

\* Sanity of the refutation: the fame tasks run one at a time (under
\* SpecFame); the effort tasks do overlap (EffortTasksOverlap is reachable
\* under SpecEffort).
FameTasksOneAtATime ==
    Cardinality({f \in Range(file_names) : task_state[f] = "running"}) <= 1

EffortTasksOverlap ==
    \A f \in Range(file_names) : task_state[f] = "opened"

\* C26: every file task opens and uses its own repository handle: the handle
\* a task works on was opened by that task, and no two tasks work on the same
\* handle.
C26_OwnRepositoryHandle ==
    \A f \in Range(file_names) :
        /\ task_state[f] = "opened"
              => /\ IsSome(task_handle[f])
                 /\ Unwrap(task_handle[f]) \in DOMAIN repo_handles
                 /\ repo_handles[Unwrap(task_handle[f])] = f
        /\ \A g \in Range(file_names) \ {f} :
              IsSome(task_handle[f]) => task_handle[g] # task_handle[f]

C26_Witness ==
    /\ \A f \in Range(file_names) : task_state[f] = "opened"
    /\ Cardinality({task_handle[f] : f \in Range(file_names)}) = Len(file_names)
    /\ Cardinality(DOMAIN repo_handles) = Len(file_names)

\* The same for the fame tasks (under SpecFame)
FameOwnRepositoryHandle ==
    \A f \in Range(file_names) :
        /\ task_state[f] = "running"
              => /\ IsSome(task_handle[f])
                 /\ Unwrap(task_handle[f]) \in DOMAIN repo_handles
                 /\ repo_handles[Unwrap(task_handle[f])] = f
        /\ task_state[f] # "running" => task_handle[f] = None

(***************************************************************************)
(* Claims about the scope of the resolved range (checked under SpecRange)  *)
(***************************************************************************)
\* the commits blame looks at for a range: BlameProcessor::process sets
\* oldest_commit / newest_commit only for a bound that is Some
InScope(range, h) ==
    {i \in 1..Len(h) :
        /\ IsSome(range.earliest) => i >= Unwrap(range.earliest)
        /\ IsSome(range.latest) => i <= Unwrap(range.latest)}

\* C28: when a start bound is given, no commit with a timestamp earlier than
\* start is in scope of the resolved range; in particular, when start is later
\* than every commit the resolved range is not the unbounded range.
C28_NothingBeforeStartInScope ==
    (range_pc = "resolved" /\ commit_range.ok /\ IsSome(start_date))
        => /\ \A i \in InScope(commit_range, history) : history[i] >= Unwrap(start_date)
           /\ (\A i \in 1..Len(history) : history[i] < Unwrap(start_date))
                 => commit_range # NoRange

\* Sanity of the refutation: on a history whose times never decrease, a start
\* bound that some commit reaches does keep every earlier commit out of scope.
StartBoundHonouredWhenReached ==
    (range_pc = "resolved" /\ commit_range.ok /\ IsSome(start_date)
       /\ Chronological(history)
       /\ \E i \in 1..Len(history) : history[i] >= Unwrap(start_date))
        => /\ IsSome(commit_range.earliest)
           /\ \A i \in InScope(commit_range, history) : history[i] >= Unwrap(start_date)

\* C29: when both start and end are given with start <= end and both
\* earliest and latest are resolved to commits, the timestamp of earliest is
\* <= the timestamp of latest, also when no commit lies inside [start, end].
C29_RangeNeverInverted ==
    (range_pc = "resolved" /\ commit_range.ok
       /\ IsSome(start_date) /\ IsSome(end_date) /\ Unwrap(start_date) <= Unwrap(end_date)
       /\ IsSome(commit_range.earliest) /\ IsSome(commit_range.latest))
        => history[Unwrap(commit_range.earliest)] <= history[Unwrap(commit_range.latest)]

\* Sanity of the refutation: on a history whose times never decrease the
\* range is not inverted when some commit lies inside [start, end].
RangeNotInvertedAroundACommit ==
    (range_pc = "resolved" /\ commit_range.ok
       /\ IsSome(start_date) /\ IsSome(end_date)
       /\ Chronological(history)
       /\ \E i \in 1..Len(history) :
             history[i] >= Unwrap(start_date) /\ history[i] <= Unwrap(end_date))
        => /\ IsSome(commit_range.earliest) /\ IsSome(commit_range.latest)
           /\ history[Unwrap(commit_range.earliest)] <= history[Unwrap(commit_range.latest)]

\* the resolver of git_utils.rs inverts the range on the same inputs
GitUtilsRangeNeverInverted ==
    (gu_pc = "resolved" /\ gu_range.ok
       /\ IsSome(start_date) /\ IsSome(end_date) /\ Unwrap(start_date) <= Unwrap(end_date)
       /\ IsSome(gu_range.earliest) /\ IsSome(gu_range.latest))
        => history[Unwrap(gu_range.earliest)] <= history[Unwrap(gu_range.latest)]

(***************************************************************************)
(* Claims about the termination of gap-filling (checked under SpecByDate)  *)
(***************************************************************************)
\* C27: fill_date_gaps terminates for every non-empty input sorted strictly
\* ascending by date as process_date produces it: the call never runs away,
\* also when bucket dates are not whole days apart from the first bucket's.
C27_FillDateGapsTerminates ==
    bd_pc # "runaway"

(***************************************************************************)
(* Claims about the totals of the by-date output (checked under SpecByDate)*)
(***************************************************************************)
RECURSIVE SumOfCounts(_)
SumOfCounts(buckets) ==
    IF buckets = <<>> THEN 0 ELSE Head(buckets).count + SumOfCounts(Tail(buckets))

\* the number of counted commits at one instant
CountedAt(ts) == Cardinality({i \in CountedCommits : history[i] = ts})

\* C30: commit counts are conserved in the by-date output: before and after
\* gap-filling the counts of the buckets add up to the number of commits that
\* passed the filters, every bucket of the walk is there with its count after
\* gap-filling, and the 'Total' row shows that number.
C30_CountsConserved ==
    /\ bd_pc \in {"sorted", "returned", "displayed"}
          => /\ SumOfCounts(bd_output) = Cardinality(CountedCommits)
             /\ \A i \in CountedCommits :
                   \E j \in 1..Len(bd_output) :
                      /\ bd_output[j].date.timestamp = history[i]
                      /\ bd_output[j].count = CountedAt(history[i])
    /\ bd_pc = "displayed" => total_count = Cardinality(CountedCommits)

\* two commits two whole days apart, both counted: three rows, Total 2
C30_Witness ==
    /\ bd_pc = "displayed"
    /\ ~ignore_gap_fill
    /\ Cardinality(CountedCommits) = 2
    /\ Len(bd_output) = 3
    /\ bd_output[2].count = 0
    /\ total_count = 2

====
